---- MODULE Spec2Model ----
(***************************************************************************)
(* A model of the data-access layer of VisualPIC:                          *)
(*   - ParticleSpecies (visualpic/data_handling/particle_species.py):      *)
(*     construction and get_data, with the calls it makes to the data      *)
(*     reader, the unit converter and the derived-data recipes recorded    *)
(*     in order;                                                           *)
(*   - OsirisFolderScanner (VisualPIC/DataReading/folder_scanners.py):     *)
(*     get_list_of_fields and _get_files_and_timesteps over a directory    *)
(*     tree.                                                               *)
(* Python strings that the code slices or rewrites are sequences of        *)
(* one-character strings; names that are only compared are strings.        *)
(***************************************************************************)
EXTENDS Integers, Sequences, FiniteSets, TLC

VARIABLES
    \* ParticleSpecies: the fields set by __init__
    components_in_file, derived_components, timesteps, species_files,
    \* one get_data call: where the caller is, its arguments, what the call
    \* gave back, and the calls made to the collaborators, in order
    pc, args, outcome, calls,
    \* the simulation folder: every path that exists, with its kind and,
    \* for a directory, its entries in the order os.listdir gives them
    fs,
    \* one call of the folder scanner: where the caller is, the folder
    \* asked about, and what the call gave back
    scan_pc, scan_folder, scan_outcome

species_vars == <<components_in_file, derived_components, timesteps, species_files>>
call_vars == <<pc, args, outcome, calls>>
scan_vars == <<fs, scan_pc, scan_folder, scan_outcome>>
vars == <<species_vars, call_vars, scan_vars>>

\* ------------------------------------------------------------------ bounds
\* longest components_list (and data_units) of a get_data call
MaxLen == 2
\* most time steps a species holds
MaxSteps == 2
\* most entries of a field folder
MaxFiles == 3

\* --------------------------------------------------------------- helpers
Range(s) == {s[i] : i \in DOMAIN s}

SeqsUpTo(S, n) == UNION {[1..k -> S] : k \in 0..n}

\* Python's None for a string argument
NoneValue == "None"

\* An optional list argument: <<>> is None, <<l>> is the list l
NoList == <<>>
SomeList(l) == <<l>>
IsNone(opt) == opt = <<>>

\* ---------------------------------------------------------- collaborators
\* The names a data file can hold, in the order the reader reports them.
RawOrder == <<"px", "py", "pz", "tag">>

DataUnits == {"SI", "um"}
TimeUnits == {NoneValue, "fs"}
species_name == "electrons"

\* The registry of derived particle data, a list of definitions.
derived_particle_data_definitions ==
    << [name |-> "xp", units |-> "rad", requirements |-> <<"px", "pz">>],
       [name |-> "yp", units |-> "rad", requirements |-> <<"py", "pz">>] >>

get_definition(name) ==
    CHOOSE d \in Range(derived_particle_data_definitions) : d.name = name

\* The recipe of a definition: a pure function of the required data,
\* giving the derived array (here: what it was computed from).
recipe(data_def, required_data) ==
    [comp |-> data_def.name,
     units |-> data_def.units,
     inputs |-> [i \in DOMAIN data_def.requirements |->
                    required_data[data_def.requirements[i]].array]]

\* data_reader.read_particle_data: the arrays of the file as they are
\* stored, each with its metadata in the units of the file.
read_particle_data(file_path, species, components_list) ==
    [c \in Range(components_list) |->
        [array |-> [comp |-> c, units |-> "native", inputs |-> <<file_path, species>>],
         md |-> [units |-> "native", time_units |-> "native"]]]

\* unit_converter.convert_particle_data_units: the components named in
\* target_data_units are rescaled to their target unit, the others are
\* left alone; the time information goes to target_time_units when given.
convert_particle_data_units(data, target_data_units, target_time_units) ==
    [k \in DOMAIN data |->
        LET e == data[k]
            u == IF k \in DOMAIN target_data_units
                 THEN target_data_units[k] ELSE e.md.units
            t == IF target_time_units # NoneValue
                 THEN target_time_units ELSE e.md.time_units
        IN [array |-> [e.array EXCEPT !.units =
                          IF k \in DOMAIN target_data_units
                          THEN target_data_units[k] ELSE @],
            md |-> [units |-> u, time_units |-> t]]]

\* (a dict in which a key met again keeps its first value)
DictZipFirst(keys, values) ==
    LET n == IF Len(keys) < Len(values) THEN Len(keys) ELSE Len(values)
        first(k) == CHOOSE i \in 1..n :
                       keys[i] = k /\ \A j \in 1..n : keys[j] = k => i <= j
    IN [k \in {keys[i] : i \in 1..n} |-> values[first(k)]]

\* Python's dict(zip(keys, values)): the shorter list bounds the pairs and
\* a key met again takes the later value.
DictZip(keys, values) ==
    LET n == IF Len(keys) < Len(values) THEN Len(keys) ELSE Len(values)
        last(k) == CHOOSE i \in 1..n :
                      keys[i] = k /\ \A j \in 1..n : keys[j] = k => j <= i
    IN [k \in {keys[i] : i \in 1..n} |-> values[last(k)]]

\* Python's {**a, **b}
Merge(a, b) ==
    [k \in DOMAIN a \cup DOMAIN b |-> IF k \in DOMAIN b THEN b[k] ELSE a[k]]

EmptyDict == [k \in {} |-> 0]

\* ------------------------------------------------------- ParticleSpecies
\* (a test that one requirement is present, where all are needed)
issubset_any(requirements, comps) ==
    \E r \in Range(requirements) : r \in Range(comps)

\* set(requirements).issubset(components_in_file)
issubset(requirements, comps) ==
    Range(requirements) \subseteq Range(comps)

_determine_available_derived_components(comps) ==
    LET sel == SelectSeq(derived_particle_data_definitions,
                         LAMBDA component : issubset(component.requirements, comps))
    IN [i \in 1..Len(sel) |-> sel[i].name]

\* list.remove: the first occurrence goes
ListRemove(s, e) ==
    LET i == CHOOSE j \in 1..Len(s) : s[j] = e /\ \A k \in 1..(j - 1) : s[k] # e
    IN SubSeq(s, 1, i - 1) \o SubSeq(s, i + 1, Len(s))

\* (the list with 'tag' left in)
available_with_tags(include_tags) ==
    components_in_file \o derived_components

get_list_of_available_components(include_tags) ==
    LET all_components == components_in_file \o derived_components
    IN IF ~include_tags /\ "tag" \in Range(all_components)
       THEN ListRemove(all_components, "tag")
       ELSE all_components

\* What a step of get_data gives: data, the calls it made, and an error
Ok(data, made) == [error |-> "none", data |-> data, calls |-> made]

\* (a conversion made whether or not data units were asked for)
convert_always(data, components_list, data_units, time_units) ==
    LET units_dict == IF IsNone(data_units) THEN EmptyDict
                      ELSE DictZip(components_list, data_units[1])
    IN Ok(convert_particle_data_units(data, units_dict, time_units),
          << [op |-> "convert", keys |-> DOMAIN data,
              target_data_units |-> units_dict,
              target_time_units |-> time_units] >>)

_convert_data_units(data, components_list, data_units, time_units) ==
    IF ~IsNone(data_units)
    THEN LET units_dict == DictZip(components_list, data_units[1])
         IN Ok(convert_particle_data_units(data, units_dict, time_units),
               << [op |-> "convert", keys |-> DOMAIN data,
                   target_data_units |-> units_dict,
                   target_time_units |-> time_units] >>)
    ELSE Ok(data, <<>>)

_get_file_data(file_path, components_list, data_units, time_units) ==
    LET data == read_particle_data(file_path, species_name, components_list)
        conv == _convert_data_units(data, components_list, data_units, time_units)
    IN Ok(conv.data,
          << [op |-> "read", file_path |-> file_path, species |-> species_name,
              components |-> components_list] >> \o conv.calls)

\* (the requirements left in the units of the file when the caller
\* names no units)
required_data_units_of_caller(required_data_list, target_units) ==
    IF IsNone(target_units) THEN NoList
    ELSE SomeList([i \in 1..Len(required_data_list) |-> "SI"])

\* ['SI'] * len(required_data_list)
required_data_units(required_data_list, target_units) ==
    SomeList([i \in 1..Len(required_data_list) |-> "SI"])

\* The loop of _calculate_derived_data over data_list[1..n]
RECURSIVE DerivedLoop(_, _, _, _, _)
DerivedLoop(file_path, data_list, target_units, time_units, n) ==
    IF n = 0 THEN Ok(EmptyDict, <<>>)
    ELSE LET before == DerivedLoop(file_path, data_list, target_units, time_units, n - 1)
             data_def == get_definition(data_list[n])
             required_data_list == data_def.requirements
             required == _get_file_data(
                 file_path, required_data_list,
                 required_data_units(required_data_list, target_units), time_units)
             derived_data == recipe(data_def, required.data)
             derived_data_md == [required.data[required_data_list[1]].md
                                    EXCEPT !.units = data_def.units]
             entry == [array |-> derived_data, md |-> derived_data_md]
         IN Ok(Merge(before.data, [k \in {data_def.name} |-> entry]),
               before.calls \o required.calls
                  \o << [op |-> "recipe", name |-> data_def.name] >>)

_calculate_derived_data(file_path, data_list, target_data_units, time_units) ==
    LET loop == DerivedLoop(file_path, data_list, target_data_units, time_units,
                            Len(data_list))
        conv == _convert_data_units(loop.data, data_list, target_data_units, time_units)
    IN Ok(conv.data, loop.calls \o conv.calls)

\* (a lookup that falls back on the last position)
IndexOrLast(s, e) ==
    IF e \in Range(s)
    THEN CHOOSE i \in 1..Len(s) : s[i] = e /\ \A j \in 1..(i - 1) : s[j] # e
    ELSE Len(s)

\* list.index of _get_file_path: the first position, 0 when there is none
\* (where Python raises ValueError)
IndexOf(s, e) ==
    IF e \in Range(s)
    THEN CHOOSE i \in 1..Len(s) : s[i] = e /\ \A j \in 1..(i - 1) : s[j] # e
    ELSE 0

\* The outcome of get_data
Failure(kind, lens, component, available) ==
    [error |-> kind, lens |-> lens, component |-> component,
     available |-> available, data |-> EmptyDict]

Success(data) ==
    [error |-> "none", lens |-> <<>>, component |-> NoneValue,
     available |-> <<>>, data |-> data]

NoOutcome ==
    [error |-> "none", lens |-> <<>>, component |-> NoneValue,
     available |-> <<>>, data |-> EmptyDict]

NoArgs ==
    [time_step |-> 0, components_list |-> <<>>, data_units |-> NoList,
     time_units |-> NoneValue]

\* The indices of components_list that go to the file reader, and those
\* that are derived, in order.
Indices(components_list, set) ==
    SelectSeq([i \in 1..Len(components_list) |-> i],
              LAMBDA i : components_list[i] \in set)

Pick(s, idx) == [k \in 1..Len(idx) |-> s[idx[k]]]

\* (a check that only sees a data_units list that is too short)
LengthsMismatchShort(components_list, data_units) ==
    ~IsNone(data_units) /\ Len(data_units[1]) < Len(components_list)

\* units_are_specified and (len(components_list) != len(data_units))
LengthsMismatch(components_list, data_units) ==
    ~IsNone(data_units) /\ Len(components_list) # Len(data_units[1])

\* The whole of get_data: the result and the collaborator calls made.
GetDataBody(time_step, components_list, data_units, time_units) ==
    LET units_are_specified == ~IsNone(data_units)
        in_file == Range(components_in_file)
        derived == Range(derived_components) \ in_file
        read_i == Indices(components_list, in_file)
        derived_i == Indices(components_list, derived)
        unknown_i == Indices(components_list,
                             Range(components_list) \ (in_file \cup derived))
        comp_to_read == Pick(components_list, read_i)
        derived_list == Pick(components_list, derived_i)
        comp_to_read_units ==
            IF units_are_specified THEN SomeList(Pick(data_units[1], read_i))
            ELSE NoList
        derived_components_units ==
            IF units_are_specified THEN SomeList(Pick(data_units[1], derived_i))
            ELSE NoList
        ts_i == IndexOf(timesteps, time_step)
    IN IF LengthsMismatch(components_list, data_units)
       THEN [out |-> Failure("MismatchedLength",
                             <<Len(components_list), Len(data_units[1])>>,
                             NoneValue, <<>>),
             calls |-> <<>>]
       ELSE IF unknown_i # <<>>
       THEN [out |-> Failure("UnknownComponent", <<>>,
                             components_list[unknown_i[1]],
                             get_list_of_available_components(FALSE)),
             calls |-> <<>>]
       ELSE IF ts_i = 0
       THEN [out |-> Failure("TimeStepNotFound", <<>>, NoneValue, <<>>),
             calls |-> <<>>]
       ELSE LET file_path == species_files[ts_i]
                folder_data == _get_file_data(file_path, comp_to_read,
                                              comp_to_read_units, time_units)
                derived_data == _calculate_derived_data(
                    file_path, derived_list, derived_components_units, time_units)
            IN [out |-> Success(Merge(folder_data.data, derived_data.data)),
                calls |-> folder_data.calls \o derived_data.calls]

\* --------------------------------------------------- OsirisFolderScanner
\* Strings the scanner joins, slices and rewrites: sequences of characters.
SEP == <<"/">>
DENSITY == <<"D", "E", "N", "S", "I", "T", "Y">>
FLD == <<"F", "L", "D">>
MS == <<"M", "S">>
RootPath == <<"s", "i", "m">>
Electrons == <<"e", "l", "e", "c", "t", "r", "o", "n", "s">>
Ions == <<"i", "o", "n", "s">>
Charge == <<"c", "h", "a", "r", "g", "e">>
ChargeSavg == <<"c", "h", "a", "r", "g", "e", "-", "s", "a", "v", "g">>
E1Savg == <<"e", "1", "-", "s", "a", "v", "g">>
J1 == <<"j", "1">>
Savg == <<"-", "s", "a", "v", "g">>
DotH5 == <<".", "h", "5">>

\* The entries a field folder may hold: data files, two of them of the
\* same time step, a data file with a short name, and a file that is no
\* data file.
F50 == <<"f", "0", "0", "0", "0", "5", "0", ".", "h", "5">>
F100 == <<"f", "0", "0", "0", "1", "0", "0", ".", "h", "5">>
G100 == <<"g", "0", "0", "0", "1", "0", "0", ".", "h", "5">>
FMinus12 == <<"f", "-", "0", "0", "0", "1", "2", ".", "h", "5">>
XShort == <<"x", ".", "h", "5">>
LogTxt == <<"l", "o", "g", ".", "t", "x", "t">>

FileNames == {F50, F100, G100, FMinus12, XShort, LogTxt}

\* os.path.join of a folder and an entry
Join(a, b) == a \o SEP \o b

\* os.listdir on an existing directory; on anything else it raises
IsDirectory(p) == p \in DOMAIN fs /\ fs[p].kind = "dir"

listdir(p) == fs[p].entries

\* (a test that the path exists, directory or not)
isdir_exists(p) == p \in DOMAIN fs

\* os.path.isdir
isdir(p) == p \in DOMAIN fs /\ fs[p].kind = "dir"

\* str.endswith
endswith(s, suffix) ==
    /\ Len(s) >= Len(suffix)
    /\ SubSeq(s, Len(s) - Len(suffix) + 1, Len(s)) = suffix

\* str.replace(old, new), occurrences taken from the left
RECURSIVE replace(_, _, _)
replace(s, old, new) ==
    IF Len(s) < Len(old) THEN s
    ELSE IF SubSeq(s, 1, Len(old)) = old
         THEN new \o replace(SubSeq(s, Len(old) + 1, Len(s)), old, new)
         ELSE <<s[1]>> \o replace(Tail(s), old, new)

\* The slice s[-9:-3]
TokenStart == 9
TokenStop == 3

Slice(s) ==
    LET start == IF Len(s) > TokenStart THEN Len(s) - TokenStart ELSE 0
        stop == IF Len(s) > TokenStop THEN Len(s) - TokenStop ELSE 0
    IN SubSeq(s, start + 1, stop)

DigitChars == <<"0", "1", "2", "3", "4", "5", "6", "7", "8", "9">>

DigitValue(c) == (CHOOSE i \in DOMAIN DigitChars : DigitChars[i] = c) - 1

RECURSIVE DecimalValue(_)
DecimalValue(ds) ==
    IF ds = <<>> THEN 0
    ELSE 10 * DecimalValue(SubSeq(ds, 1, Len(ds) - 1)) + DigitValue(ds[Len(ds)])

\* int(text) for a text of signs, digits and other characters: an
\* optional sign and then digits only, or ValueError (ok = FALSE).
int(text) ==
    LET signed == text # <<>> /\ text[1] \in {"-", "+"}
        ds == IF signed THEN Tail(text) ELSE text
        ok == ds # <<>> /\ \A i \in DOMAIN ds : ds[i] \in Range(DigitChars)
        v == IF ok THEN DecimalValue(ds) ELSE 0
    IN [ok |-> ok, value |-> IF signed /\ text[1] = "-" THEN 0 - v ELSE v]

IndexPermutations(n) ==
    {p \in [1..n -> 1..n] : \A i, j \in 1..n : p[i] = p[j] => i = j}

\* (an order that leaves the time steps as they were listed)
argsort_identity(time_steps) == {[i \in 1..Len(time_steps) |-> i]}

\* np.argsort: an order in which the values do not decrease; the order
\* among equal values is not fixed by the default sort kind.
argsort(time_steps) ==
    {p \in IndexPermutations(Len(time_steps)) :
        \A i \in 1..(Len(time_steps) - 1) :
            time_steps[p[i]] <= time_steps[p[i + 1]]}

\* What a scanner step gives: every result it can end with
ScanFailure(kind) == [error |-> kind, field_list |-> <<>>]

FilesFailure(kind) == [error |-> kind, files |-> <<>>, time_steps |-> <<>>]

\* _get_files_and_timesteps, given the listing of the field folder
_get_files_and_timesteps(field_folder_path) ==
    IF ~IsDirectory(field_folder_path) THEN {FilesFailure("NotADirectory")}
    ELSE
    LET all_files == listdir(field_folder_path)
        h5_names == SelectSeq(all_files, LAMBDA file : endswith(file, DotH5))
        h5_files == [i \in 1..Len(h5_names) |-> Join(field_folder_path, h5_names[i])]
        parsed == [i \in 1..Len(h5_files) |-> int(Slice(h5_files[i]))]
        time_steps == [i \in 1..Len(h5_files) |-> parsed[i].value]
    IN IF \E i \in 1..Len(h5_files) : ~parsed[i].ok
       THEN {FilesFailure("ValueError")}
       ELSE {[error |-> "none",
              files |-> [i \in 1..Len(h5_files) |-> h5_files[sort_i[i]]],
              time_steps |-> [i \in 1..Len(h5_files) |-> time_steps[sort_i[i]]]] :
                sort_i \in argsort(time_steps)}

_get_osiris_field_name(field_folder_name) ==
    replace(field_folder_name, Savg, <<>>)

name_relations ==
    { << <<"e", "1">>, "Ez" >>, << <<"e", "2">>, "Ex" >>, << <<"e", "3">>, "Ey" >>,
      << <<"b", "1">>, "Bz" >>, << <<"b", "2">>, "Bx" >>, << <<"b", "3">>, "By" >>,
      << Charge, "rho" >> }

KnownName(osiris_name) == \E r \in name_relations : r[1] = osiris_name

\* _get_standard_visualpic_name, where the name is known
_get_standard_visualpic_name(osiris_name) ==
    (CHOOSE r \in name_relations : r[1] = osiris_name)[2]

_get_field_path(field_folder_name) ==
    SEP \o _get_osiris_field_name(field_folder_name)

\* _create_field: the descriptors it can build, or the error it raises
_create_field(field_name, field_folder, species) ==
    LET field_path == _get_field_path(field_name)
        osiris_field_name == _get_osiris_field_name(field_name)
    IN IF ~KnownName(osiris_field_name) THEN {[error |-> "UnknownDataName"]}
       ELSE {IF ft.error # "none" THEN [error |-> ft.error]
             ELSE [error |-> "none",
                   field |-> [field_name |-> _get_standard_visualpic_name(osiris_field_name),
                              field_path |-> field_path,
                              fld_files |-> ft.files,
                              time_steps |-> ft.time_steps,
                              species_name |-> species]] :
                ft \in _get_files_and_timesteps(field_folder)}

\* The loop over the first n entries of a folder of field folders, from
\* each result the scan can have reached before it.
RECURSIVE FieldLoop(_, _, _, _)
FieldLoop(before, folder, species, n) ==
    IF n = 0 THEN before
    ELSE UNION {
        IF b.error # "none" THEN {b}
        ELSE LET field == listdir(folder)[n]
                 field_folder == Join(folder, field)
             IN IF isdir(field_folder)
                THEN {IF c.error # "none" THEN ScanFailure(c.error)
                      ELSE [error |-> "none",
                            field_list |-> Append(b.field_list, c.field)] :
                         c \in _create_field(field, field_folder, species)}
                ELSE {b} :
        b \in FieldLoop(before, folder, species, n - 1)}

FieldsIn(before, folder, species) ==
    UNION {IF b.error # "none" THEN {b}
           ELSE IF ~IsDirectory(folder) THEN {ScanFailure("NotADirectory")}
           ELSE FieldLoop({b}, folder, species, Len(listdir(folder))) :
              b \in before}

\* The loop over the first n species of DENSITY
RECURSIVE SpeciesLoop(_, _, _)
SpeciesLoop(before, subdir, n) ==
    IF n = 0 THEN before
    ELSE LET species == listdir(subdir)[n]
             species_folder == Join(subdir, species)
             sofar == SpeciesLoop(before, subdir, n - 1)
         IN IF isdir(species_folder)
            THEN FieldsIn(sofar, species_folder, species)
            ELSE sofar

SpeciesIn(before, subdir) ==
    UNION {IF b.error # "none" THEN {b}
           ELSE IF ~IsDirectory(subdir) THEN {ScanFailure("NotADirectory")}
           ELSE SpeciesLoop({b}, subdir, Len(listdir(subdir))) :
              b \in before}

\* The loop of get_list_of_fields over the first n entries of folder_path
RECURSIVE RootLoop(_, _)
RootLoop(folder_path, n) ==
    IF n = 0 THEN {[error |-> "none", field_list |-> <<>>]}
    ELSE LET folder == listdir(folder_path)[n]
             sofar == RootLoop(folder_path, n - 1)
             density == IF folder = DENSITY
                        THEN SpeciesIn(sofar, Join(folder_path, folder))
                        ELSE sofar
         IN IF folder = FLD
            THEN FieldsIn(density, Join(folder_path, folder), <<>>)
            ELSE density

GetListOfFields(folder_path) == RootLoop(folder_path, Len(listdir(folder_path)))

\* ------------------------------------------------------------- actions
\* A directory, its entries in listing order, or a plain file
Dir(path, entries) == <<path, "dir", entries>>
File(path) == <<path, "file", <<>> >>

Tree(nodes) ==
    [p \in {n[1] : n \in nodes} |->
        LET n == CHOOSE m \in nodes : m[1] = p
        IN [kind |-> n[2], entries |-> n[3]]]

EmptyTree == Tree({Dir(RootPath, <<>>)})

NoScan == [error |-> "none"]

\* The orders in which a listing can give the names of a set
Listings(names) ==
    {l \in [1..Cardinality(names) -> names] :
        \A i, j \in DOMAIN l : l[i] = l[j] => i = j}

Kinds == {"absent", "file", "dir"}

Present(kind, name) == IF kind = "absent" THEN {} ELSE {name}

\* The node of a path of the given kind, a directory with the entries given
Node(kind, path, entries) ==
    IF kind = "dir" THEN {Dir(path, entries)}
    ELSE IF kind = "file" THEN {File(path)}
    ELSE {}

\* ParticleSpecies.__init__ has run: the species of a simulation load.
Init ==
    /\ \E S \in SUBSET Range(RawOrder) :
          components_in_file = SelectSeq(RawOrder, LAMBDA c : c \in S)
    /\ derived_components = _determine_available_derived_components(components_in_file)
    /\ \E n \in 0..MaxSteps :
          /\ timesteps = [i \in 1..n |-> 10 * i]
          /\ species_files = [i \in 1..n |-> 100 + i]
    /\ pc = "idle"
    /\ args = NoArgs
    /\ outcome = NoOutcome
    /\ calls = <<>>
    /\ fs = EmptyTree
    /\ scan_pc = "idle"
    /\ scan_folder = <<>>
    /\ scan_outcome = NoScan

RequestNames ==
    Range(RawOrder)
       \cup {derived_particle_data_definitions[i].name :
                i \in DOMAIN derived_particle_data_definitions}
       \cup {"unknown_comp"}

get_data ==
    /\ pc = "idle"
    /\ UNCHANGED scan_vars
    /\ \E time_step \in {10 * i : i \in 1..(MaxSteps + 1)},
          components_list \in SeqsUpTo(RequestNames, MaxLen),
          units \in {NoList} \cup {SomeList(l) : l \in SeqsUpTo(DataUnits, MaxLen)},
          time_units \in TimeUnits :
          LET r == GetDataBody(time_step, components_list, units, time_units)
          IN /\ args' = [time_step |-> time_step, components_list |-> components_list,
                         data_units |-> units, time_units |-> time_units]
             /\ outcome' = r.out
             /\ calls' = r.calls
    /\ pc' = "returned"
    /\ UNCHANGED species_vars

\* The caller is done with the result and may ask again.
Return ==
    /\ pc = "returned"
    /\ pc' = "idle"
    /\ args' = NoArgs
    /\ outcome' = NoOutcome
    /\ calls' = <<>>
    /\ UNCHANGED species_vars
    /\ UNCHANGED scan_vars

Next == get_data \/ Return

Spec == Init /\ [][Next]_vars

\* --------------------------------------------- the scanner's actions
DensityPath == Join(RootPath, DENSITY)
FldPath == Join(RootPath, FLD)

\* What the field folders of a scanned simulation folder hold
ScanListings == {<<>>, <<F100, F50>>, <<XShort>>, <<G100, LogTxt, F100>>}

\* A simulation folder as a simulation left it: DENSITY with species
\* folders and their field folders, FLD with field folders, another
\* top-level folder, stray files in place of folders, and in every field
\* folder the same entries.
InitScan ==
    /\ components_in_file = <<>>
    /\ derived_components = <<>>
    /\ timesteps = <<>>
    /\ species_files = <<>>
    /\ pc = "idle"
    /\ args = NoArgs
    /\ outcome = NoOutcome
    /\ calls = <<>>
    /\ scan_pc = "idle"
    /\ scan_folder = <<>>
    /\ scan_outcome = NoScan
    /\ \E ms \in {"absent", "dir"}, density \in Kinds, fld \in Kinds,
          electrons \in Kinds, ions \in {"absent", "dir"},
          electrons_charge \in Kinds, ions_charge \in {"absent", "dir"},
          e1 \in Kinds, j1 \in {"absent", "dir"} :
          /\ density # "dir" => electrons = "absent" /\ ions = "absent"
          /\ electrons # "dir" => electrons_charge = "absent"
          /\ ions # "dir" => ions_charge = "absent"
          /\ fld # "dir" => e1 = "absent" /\ j1 = "absent"
          /\ \E files \in ScanListings,
                top \in Listings(Present(ms, MS) \cup Present(density, DENSITY)
                                    \cup Present(fld, FLD)),
                species \in Listings(Present(electrons, Electrons)
                                        \cup Present(ions, Ions)),
                fields \in Listings(Present(e1, E1Savg) \cup Present(j1, J1)) :
                LET ele == Join(DensityPath, Electrons)
                    ion == Join(DensityPath, Ions)
                    field_folders ==
                        Node(electrons_charge, Join(ele, Charge), files)
                           \cup Node(ions_charge, Join(ion, ChargeSavg), files)
                           \cup Node(e1, Join(FldPath, E1Savg), files)
                           \cup Node(j1, Join(FldPath, J1), files)
                    field_files ==
                        {File(Join(n[1], files[i])) :
                            n \in {m \in field_folders : m[2] = "dir"},
                            i \in DOMAIN files}
                IN fs = Tree(
                     {Dir(RootPath, top)}
                        \cup Node(ms, Join(RootPath, MS), <<>>)
                        \cup Node(density, DensityPath, species)
                        \cup Node(fld, FldPath, fields)
                        \cup Node(electrons, ele,
                                  IF electrons_charge = "absent" THEN <<>>
                                  ELSE <<Charge>>)
                        \cup Node(ions, ion,
                                  IF ions_charge = "absent" THEN <<>>
                                  ELSE <<ChargeSavg>>)
                        \cup field_folders
                        \cup field_files)

\* OsirisFolderScanner.get_list_of_fields on the simulation folder
get_list_of_fields ==
    /\ scan_pc = "idle"
    /\ scan_folder' = RootPath
    /\ scan_outcome' \in GetListOfFields(RootPath)
    /\ scan_pc' = "scanned"
    /\ UNCHANGED <<fs, species_vars, call_vars>>

\* The caller is done with what the scanner gave.
ScanReturn ==
    /\ scan_pc # "idle"
    /\ scan_pc' = "idle"
    /\ scan_folder' = <<>>
    /\ scan_outcome' = NoScan
    /\ UNCHANGED <<fs, species_vars, call_vars>>

NextScan == get_list_of_fields \/ ScanReturn

SpecScan == InitScan /\ [][NextScan]_vars

\* One field folder of FLD, with any entries in any listing order
InitFiles ==
    /\ components_in_file = <<>>
    /\ derived_components = <<>>
    /\ timesteps = <<>>
    /\ species_files = <<>>
    /\ pc = "idle"
    /\ args = NoArgs
    /\ outcome = NoOutcome
    /\ calls = <<>>
    /\ scan_pc = "idle"
    /\ scan_folder = <<>>
    /\ scan_outcome = NoScan
    /\ \E files \in UNION {Listings(F) :
                             F \in {G \in SUBSET FileNames :
                                       Cardinality(G) <= MaxFiles}} :
          fs = Tree({Dir(RootPath, <<FLD>>), Dir(FldPath, <<E1Savg>>),
                     Dir(Join(FldPath, E1Savg), files)}
                       \cup {File(Join(Join(FldPath, E1Savg), files[i])) :
                                i \in DOMAIN files})

\* The folders that hold the data files of one field
FieldFolders ==
    {p \in DOMAIN fs :
        /\ fs[p].kind = "dir"
        /\ \E parent \in DOMAIN fs \ {RootPath, DensityPath} :
              \E i \in DOMAIN fs[parent].entries :
                 p = Join(parent, fs[parent].entries[i])}

\* OsirisFolderScanner._get_files_and_timesteps on one field folder
get_files_and_timesteps ==
    /\ scan_pc = "idle"
    /\ \E field_folder \in FieldFolders :
          /\ scan_folder' = field_folder
          /\ scan_outcome' \in _get_files_and_timesteps(field_folder)
    /\ scan_pc' = "listed"
    /\ UNCHANGED <<fs, species_vars, call_vars>>

NextFiles == get_files_and_timesteps \/ ScanReturn

SpecFiles == InitFiles /\ [][NextFiles]_vars

\* ------------------------------------------------- get_data: the claims
Returned == pc = "returned"

Succeeded == Returned /\ outcome.error = "none"

Available == Range(components_in_file) \cup Range(derived_components)

AllAvailable == Range(args.components_list) \subseteq Available

UnitsGiven == ~IsNone(args.data_units)

LengthsAgree ==
    UnitsGiven => Len(args.data_units[1]) = Len(args.components_list)

StepKnown == args.time_step \in Range(timesteps)

\* The file of the time step asked for, by position in timesteps.
ResolvedFile ==
    species_files[CHOOSE i \in DOMAIN timesteps : timesteps[i] = args.time_step]

NoCollaboratorCalled == calls = <<>>

ConvertCalls == {i \in DOMAIN calls : calls[i].op = "convert"}

\* C1 as stated: a get_data call with a time step that is not in timesteps
\* fails with the time-step-not-found error and returns no data, whatever
\* components_list and data_units are.
C1_Original ==
    (Returned /\ ~StepKnown) =>
        /\ outcome.error = "TimeStepNotFound"
        /\ DOMAIN outcome.data = {}

\* C1 amended: a get_data call with a time step that is not in timesteps
\* fails, returns no data and calls neither the reader nor the converter;
\* the error is the time-step-not-found error exactly when data_units is
\* omitted or as long as components_list and every requested name is
\* available, and otherwise it is the mismatched-length error or, when the
\* lengths agree, the unknown-component error.
C1_TimeStepAbsent ==
    (Returned /\ ~StepKnown) =>
        /\ outcome.error # "none"
        /\ DOMAIN outcome.data = {}
        /\ NoCollaboratorCalled
        /\ (outcome.error = "TimeStepNotFound") <=> (LengthsAgree /\ AllAvailable)
        /\ (outcome.error = "MismatchedLength") <=> ~LengthsAgree
        /\ (outcome.error = "UnknownComponent") <=> (LengthsAgree /\ ~AllAvailable)

C1_Witness ==
    /\ Returned /\ ~StepKnown
    /\ timesteps # <<>>
    /\ outcome.error = "TimeStepNotFound"
    /\ UnitsGiven
    /\ Len(args.components_list) = MaxLen

\* The list an unknown-component error is expected to carry: the raw
\* components, then the derived ones, without 'tag'.
ExpectedAvailable ==
    SelectSeq(components_in_file \o derived_components, LAMBDA c : c # "tag")

\* C2 as stated: a get_data call whose components_list holds a name that is
\* neither raw nor derived fails with the unknown-component error, which
\* carries components_in_file followed by derived_components without 'tag'.
C2_Original ==
    (Returned /\ ~AllAvailable) =>
        /\ outcome.error = "UnknownComponent"
        /\ outcome.available = ExpectedAvailable

\* C2 amended: a get_data call whose data_units is omitted or as long as
\* components_list, and whose components_list holds a name that is neither
\* raw nor derived, fails with the unknown-component error for the first
\* such name, which carries components_in_file followed by
\* derived_components without 'tag'; this holds for every time step.
C2_UnknownComponent ==
    (Returned /\ ~AllAvailable /\ LengthsAgree) =>
        /\ outcome.error = "UnknownComponent"
        /\ outcome.available = ExpectedAvailable
        /\ outcome.component \in Range(args.components_list) \ Available
        /\ \E i \in DOMAIN args.components_list :
              /\ args.components_list[i] = outcome.component
              /\ \A j \in 1..(i - 1) : args.components_list[j] \in Available
        /\ DOMAIN outcome.data = {}

C2_Witness ==
    /\ Returned /\ ~AllAvailable /\ LengthsAgree
    /\ outcome.error = "UnknownComponent"
    /\ "tag" \in Range(components_in_file)
    /\ derived_components # <<>>
    /\ "tag" \notin Range(outcome.available)
    /\ ~StepKnown

\* C3: a get_data call with data_units given and of another length than
\* components_list fails with the mismatched-length error, which carries
\* both lengths, and neither the data reader nor the unit converter has
\* been called, whatever the time step and the component names are.
C3_MismatchedLength ==
    (Returned /\ UnitsGiven /\ Len(args.data_units[1]) # Len(args.components_list)) =>
        /\ outcome.error = "MismatchedLength"
        /\ outcome.lens = <<Len(args.components_list), Len(args.data_units[1])>>
        /\ NoCollaboratorCalled
        /\ DOMAIN outcome.data = {}

C3_Witness ==
    /\ Returned /\ UnitsGiven
    /\ Len(args.data_units[1]) > Len(args.components_list)
    /\ outcome.error = "MismatchedLength"
    /\ ~AllAvailable
    /\ ~StepKnown

AllRaw == Range(args.components_list) \subseteq Range(components_in_file)

C5_TimeUnits ==
    Succeeded =>
        \A c \in DOMAIN outcome.data :
            IF args.time_units # NoneValue
            THEN /\ outcome.data[c].md.time_units = args.time_units
                 /\ \E i \in ConvertCalls :
                       /\ c \in calls[i].keys
                       /\ calls[i].target_time_units = args.time_units
            ELSE outcome.data[c].md.time_units = "native"

RequestedDerived ==
    {c \in Range(args.components_list) : c \notin Range(components_in_file)}

SIUnits(requirements) == [r \in Range(requirements) |-> "SI"]

\* C9: in a successful get_data call, for every requested derived
\* component the requirements of its definition are read from the data
\* reader as raw components of the resolved file and all converted to
\* 'SI' right before the recipe runs, whatever data_units is (none
\* included); the target unit of the caller reaches the converter only
\* after the recipe, on the recipe's output.
C9_RequirementsInSI ==
    Succeeded =>
        \A d \in RequestedDerived :
            LET reqs == get_definition(d).requirements
            IN /\ \E r \in DOMAIN calls :
                     /\ calls[r].op = "recipe" /\ calls[r].name = d
                     /\ r > 2
                     /\ calls[r - 2].op = "read"
                     /\ calls[r - 2].file_path = ResolvedFile
                     /\ calls[r - 2].components = reqs
                     /\ calls[r - 1].op = "convert"
                     /\ calls[r - 1].keys = Range(reqs)
                     /\ calls[r - 1].target_data_units = SIUnits(reqs)
               /\ \A i \in 1..Len(outcome.data[d].array.inputs) :
                     outcome.data[d].array.inputs[i].units = "SI"
               /\ \A i \in ConvertCalls :
                     d \in DOMAIN calls[i].target_data_units =>
                        /\ UnitsGiven
                        /\ d \in calls[i].keys
                        /\ \A r \in DOMAIN calls : calls[r].op = "recipe" => r < i
               /\ UnitsGiven =>
                     /\ calls[Len(calls)].op = "convert"
                     /\ d \in DOMAIN calls[Len(calls)].target_data_units

C9_Witness ==
    /\ Succeeded
    /\ Cardinality(RequestedDerived) = 2
    /\ ~UnitsGiven

C9_WitnessUnits ==
    /\ Succeeded
    /\ RequestedDerived # {}
    /\ UnitsGiven
    /\ \E i \in DOMAIN args.components_list :
          /\ args.components_list[i] \in RequestedDerived
          /\ args.data_units[1][i] = "um"

\* The conversion call that takes the target unit of a requested name: the
\* one right after the read of the raw components, the last call of all
\* for a derived component.
ConversionCallOf(c) ==
    IF c \in Range(components_in_file) THEN 2 ELSE Len(calls)

HandedWithUnit(c, u) ==
    LET k == ConversionCallOf(c)
    IN /\ k \in ConvertCalls
       /\ c \in DOMAIN calls[k].target_data_units
       /\ calls[k].target_data_units[c] = u

\* C10 as stated: when data_units is given with the length of
\* components_list and every name is available, for every index i the
\* component components_list[i] is handed to the unit converter with target
\* unit data_units[i], also when a name occurs at several indices (taken
\* here for the calls that get as far as converting: the time step is one
\* of timesteps).
C10_Original ==
    (Returned /\ UnitsGiven /\ LengthsAgree /\ AllAvailable /\ StepKnown) =>
        \A i \in DOMAIN args.components_list :
            HandedWithUnit(args.components_list[i], args.data_units[1][i])

LastIndexOf(c) ==
    CHOOSE j \in DOMAIN args.components_list :
        /\ args.components_list[j] = c
        /\ \A k \in DOMAIN args.components_list :
              args.components_list[k] = c => k <= j

\* C10 amended: when data_units is given with the length of
\* components_list, every name is available and the time step is in
\* timesteps, for every index i the component components_list[i] is handed
\* to the unit converter (in the raw conversion call if it is in
\* components_in_file, otherwise in the derived conversion call) with the
\* target unit data_units[j], j being the last index at which that name
\* occurs in components_list: data_units[i] itself when the name occurs
\* once, and the unit of the last occurrence when it occurs several times.
C10_UnitOfLastOccurrence ==
    (Returned /\ UnitsGiven /\ LengthsAgree /\ AllAvailable /\ StepKnown) =>
        /\ outcome.error = "none"
        /\ \A i \in DOMAIN args.components_list :
              LET c == args.components_list[i]
                  u == args.data_units[1][LastIndexOf(c)]
              IN /\ HandedWithUnit(c, u)
                 /\ outcome.data[c].md.units = u

C10_Witness ==
    /\ Returned /\ UnitsGiven /\ LengthsAgree /\ AllAvailable /\ StepKnown
    /\ \E i, j \in DOMAIN args.components_list :
          /\ i < j
          /\ args.components_list[i] = args.components_list[j]
          /\ args.data_units[1][i] # args.data_units[1][j]

C10_WitnessMixed ==
    /\ Returned /\ UnitsGiven /\ LengthsAgree /\ AllAvailable /\ StepKnown
    /\ RequestedDerived # {}
    /\ Range(args.components_list) \ RequestedDerived # {}
    /\ args.data_units[1][1] # args.data_units[1][2]

\* C7: for every definition d of the registry, d.name is among the derived
\* components of the species if and only if every requirement of d is in
\* components_in_file, and derived_components holds no other name; it is
\* what construction computed, before and after any get_data call.
C7_DerivedAvailability ==
    /\ \A i \in DOMAIN derived_particle_data_definitions :
          LET d == derived_particle_data_definitions[i]
          IN (d.name \in Range(derived_components)) <=>
                (\A r \in Range(d.requirements) : r \in Range(components_in_file))
    /\ \A n \in Range(derived_components) :
          \E i \in DOMAIN derived_particle_data_definitions :
             derived_particle_data_definitions[i].name = n

C7_Witness ==
    /\ Returned
    /\ "xp" \in Range(derived_components)
    /\ "yp" \notin Range(derived_components)
    /\ "pz" \in Range(components_in_file)
    /\ outcome.error = "UnknownComponent"
    /\ outcome.component = "yp"

\* ------------------------------------------- the scanner: the claims
Listed == scan_pc = "listed"

Produced == Listed /\ scan_outcome.error = "none"

DirAt(p) == p \in DOMAIN fs /\ fs[p].kind = "dir"

\* The positions of the '.h5' entries in the listing of a folder
H5Positions(folder) ==
    {i \in DOMAIN fs[folder].entries :
        LET e == fs[folder].entries[i]
        IN Len(e) >= 3 /\ e[Len(e) - 2] = "." /\ e[Len(e) - 1] = "h" /\ e[Len(e)] = "5"}

H5Paths(folder) ==
    {folder \o SEP \o fs[folder].entries[i] : i \in H5Positions(folder)}

\* The time step the scanner reads in a path: the six characters before
\* the extension
TokenValue(path) == int(Slice(path)).value

TokenParses(path) == int(Slice(path)).ok

Aligned ==
    /\ Len(scan_outcome.files) = Len(scan_outcome.time_steps)
    /\ Len(scan_outcome.files) = Cardinality(H5Positions(scan_folder))
    /\ \A i \in DOMAIN scan_outcome.files :
          TokenValue(scan_outcome.files[i]) = scan_outcome.time_steps[i]

\* C6 as stated: the pair (ordered_file_list, time_steps) that
\* _get_files_and_timesteps produces for a field folder has both parts of
\* the length of the folder's '.h5' files, time_steps strictly increasing,
\* and at every index the file whose token parsed to the time step there.
C6_Original ==
    Produced =>
        /\ Aligned
        /\ \A i, j \in DOMAIN scan_outcome.time_steps :
              i < j => scan_outcome.time_steps[i] < scan_outcome.time_steps[j]

\* C6 amended: the pair (ordered_file_list, time_steps) that
\* _get_files_and_timesteps produces for a field folder has both parts of
\* the length of the folder's '.h5' files, ordered_file_list holding each of
\* these files once; time_steps never decreases, and it is strictly
\* increasing (a time step value then maps to exactly one index) exactly
\* when no two '.h5' files of the folder carry the same time step token;
\* at every index i the token of ordered_file_list[i] parses to
\* time_steps[i].
C6_CoSorted ==
    Produced =>
        /\ Aligned
        /\ Range(scan_outcome.files) = H5Paths(scan_folder)
        /\ \A i, j \in DOMAIN scan_outcome.time_steps :
              i < j => scan_outcome.time_steps[i] <= scan_outcome.time_steps[j]
        /\ (\A i, j \in DOMAIN scan_outcome.time_steps :
               i < j => scan_outcome.time_steps[i] < scan_outcome.time_steps[j])
           <=> (\A p, q \in H5Paths(scan_folder) :
                   TokenValue(p) = TokenValue(q) => p = q)

C6_Witness ==
    /\ Produced
    /\ Len(scan_outcome.files) = MaxFiles
    /\ \E i \in 1..(MaxFiles - 1) :
          scan_outcome.time_steps[i] = scan_outcome.time_steps[i + 1]
    /\ \E i \in 1..(MaxFiles - 1) :
          scan_outcome.time_steps[i] < scan_outcome.time_steps[i + 1]
    /\ \E i \in 1..MaxFiles :
          scan_outcome.files[i] # Join(scan_folder, fs[scan_folder].entries[i])

Scanned == scan_pc = "scanned"

EntryNames == UNION {Range(fs[p].entries) : p \in DOMAIN fs}

\* The field folders of the tree: (species name, folder name, path) for
\* every directory in a species directory of DENSITY, and the same with
\* an empty species name for every directory in FLD.
ExpectedDescriptors ==
    {e \in {<<sp, f, DensityPath \o SEP \o sp \o SEP \o f>> :
               sp \in EntryNames, f \in EntryNames} :
        /\ DirAt(DensityPath)
        /\ e[1] \in Range(fs[DensityPath].entries)
        /\ DirAt(DensityPath \o SEP \o e[1])
        /\ e[2] \in Range(fs[DensityPath \o SEP \o e[1]].entries)
        /\ DirAt(e[3])}
      \cup
    {e \in {<< <<>>, f, FldPath \o SEP \o f>> : f \in EntryNames} :
        /\ DirAt(FldPath)
        /\ e[2] \in Range(fs[FldPath].entries)
        /\ DirAt(e[3])}

FieldNamesKnown ==
    \A e \in ExpectedDescriptors : KnownName(replace(e[2], Savg, <<>>))

\* One descriptor for each expected field folder, and no other
OneDescriptorEach(field_list) ==
    /\ Len(field_list) = Cardinality(ExpectedDescriptors)
    /\ \E of \in [DOMAIN field_list -> ExpectedDescriptors] :
          /\ \A i, j \in DOMAIN field_list : of[i] = of[j] => i = j
          /\ \A i \in DOMAIN field_list :
                /\ field_list[i].species_name = of[i][1]
                /\ field_list[i].field_path = SEP \o replace(of[i][2], Savg, <<>>)
                /\ Range(field_list[i].fld_files) = H5Paths(of[i][3])

\* C8 as stated: for a tree whose field folder names are all in the name
\* table, get_list_of_fields returns one descriptor for each (species
\* directory, field directory) pair under DENSITY, with that species name,
\* one with an empty species name for each field directory under FLD, and
\* no other; an absent DENSITY or FLD gives nothing and no error, and
\* entries that are no directories and other top-level folders give
\* nothing.
C8_Original ==
    (Scanned /\ FieldNamesKnown) =>
        /\ scan_outcome.error = "none"
        /\ OneDescriptorEach(scan_outcome.field_list)

CategoriesAreFolders ==
    \A c \in {DensityPath, FldPath} : c \in DOMAIN fs => DirAt(c)

TokensParse ==
    \A e \in ExpectedDescriptors : \A p \in H5Paths(e[3]) : TokenParses(p)

\* C8 amended: for a tree whose field folder names are all in the name
\* table, in which DENSITY and FLD, where root has an entry of that name,
\* are directories, and in which the time step token of every '.h5' file
\* of a field folder parses, get_list_of_fields returns one descriptor for
\* each (species directory, field directory) pair under DENSITY, with that
\* species name, one with an empty species name for each field directory
\* under FLD, and no other; an absent DENSITY or FLD gives nothing and no
\* error, and entries below DENSITY and FLD that are no directories, and
\* other top-level entries, give nothing.
C8_OneDescriptorPerFieldFolder ==
    (Scanned /\ FieldNamesKnown /\ CategoriesAreFolders /\ TokensParse) =>
        /\ scan_outcome.error = "none"
        /\ OneDescriptorEach(scan_outcome.field_list)

C8_Witness ==
    /\ Scanned /\ FieldNamesKnown /\ CategoriesAreFolders /\ TokensParse
    /\ Cardinality(ExpectedDescriptors) = 3
    /\ Join(RootPath, MS) \in DOMAIN fs
    /\ \E i \in DOMAIN scan_outcome.field_list :
          Len(scan_outcome.field_list[i].fld_files) = 2

C8_WitnessAbsent ==
    /\ Scanned /\ FieldNamesKnown /\ CategoriesAreFolders /\ TokensParse
    /\ FldPath \notin DOMAIN fs
    /\ \E p \in DOMAIN fs : fs[p].kind = "file" /\ Len(p) < 2 * Len(DensityPath)
    /\ Len(scan_outcome.field_list) = 1

====
